---- MODULE Spec2Model ----
(***************************************************************************)
(* Model of snakePipes/common_functions.py: the sample-name and pairing    *)
(* inference (get_sample_names, is_paired), config_diff, the functions     *)
(* that read and write files (load_configfile, write_configfile,           *)
(* load_organism_data, load_paths, cleanLogs) and make_temp_dir.           *)
(*                                                                         *)
(* Python strings are sequences of one-character strings, so that          *)
(* str.replace, os.path.basename, os.path.join, re.match and the           *)
(* lexicographic order of sorted() are computed, not assumed.              *)
(***************************************************************************)
EXTENDS Integers, Sequences, FiniteSets, TLC

VARIABLES
    op,           \* SampleNamer: the function that was called ("none" before the call)
    infiles,      \* SampleNamer: argument infiles, a list of paths
    ext,          \* SampleNamer: argument ext
    reads,        \* SampleNamer: argument reads, a list of read suffixes
    ret,          \* SampleNamer: outcome of the call, [status, value]
    infiles_dic,  \* is_paired: the local grouping base name -> list of paths
    cpc,          \* config_diff: "none" before the call, "config_diff" after
    dict1,        \* config_diff: the caller's first mapping
    dict2,        \* config_diff: the caller's second mapping
    diff,         \* config_diff: the mapping returned
    ofn,          \* files: the function called last ("none" before the first call)
    opc,          \* files: how that call ended: "returned", "exited" or the exception raised
    genome,       \* load_organism_data: argument genome
    maindir,      \* load_organism_data, load_paths: argument maindir
    overbose,     \* load_organism_data, load_configfile, load_paths: argument verbose
    configfile,   \* argument configfile / pathfile / d of the other calls
    files,        \* the regular files that exist: path -> [size, doc]
    odirs,        \* the organism directories that exist
    yaml_default_loader, \* the installed PyYAML lets yaml.load(f) default its Loader
    opened,       \* the paths the call has opened, in order
    organism,     \* the mapping the call returned
    ostdout,      \* the banners the call printed
    exit_msg,     \* the argument of exit()
    nwrites,      \* write_configfile calls made so far
    tpc,          \* make_temp_dir: position of the call
    tempdir,      \* make_temp_dir: argument tempdir
    fallback_dir, \* make_temp_dir: argument fallback_dir
    tverbose,     \* make_temp_dir: argument verbose
    attempts,     \* make_temp_dir: the mktemp commands run by this call, [root, ok]
    temp_path,    \* make_temp_dir: the path returned
    dirs,         \* the temporary directories that exist
    tstdout,      \* make_temp_dir: the messages printed by this call
    exit_code,    \* make_temp_dir: the argument of exit(), 0 while running
    ncalls        \* make_temp_dir: calls made so far

svars == <<op, infiles, ext, reads, ret, infiles_dic>>
cvars == <<cpc, dict1, dict2, diff>>
ovars == <<ofn, opc, genome, maindir, overbose, configfile, files, odirs,
           yaml_default_loader, opened, organism, ostdout, exit_msg, nwrites>>
tvars == <<tpc, tempdir, fallback_dir, tverbose, attempts, temp_path, dirs, tstdout,
           exit_code, ncalls>>

vars == <<svars, cvars, ovars, tvars>>

\* a component that a specification does not exercise
SampleOff ==
    /\ op = "off" /\ infiles = <<>> /\ ext = <<>> /\ reads = <<>>
    /\ ret = [status |-> "none", value |-> <<>>] /\ infiles_dic = <<>>

ConfigOff == cpc = "off" /\ dict1 = <<>> /\ dict2 = <<>> /\ diff = <<>>

OrganismOff ==
    /\ ofn = "off" /\ opc = "off" /\ genome = <<>> /\ maindir = <<>> /\ overbose = FALSE
    /\ configfile = <<>> /\ files = <<>> /\ odirs = {} /\ yaml_default_loader = TRUE
    /\ opened = <<>> /\ organism = <<>> /\ ostdout = <<>> /\ exit_msg = <<>> /\ nwrites = 0

TempOff ==
    /\ tpc = "off" /\ tempdir = <<>> /\ fallback_dir = <<>> /\ tverbose = FALSE
    /\ attempts = <<>> /\ temp_path = <<>> /\ dirs = {} /\ tstdout = <<>>
    /\ exit_code = 0 /\ ncalls = 0

(***************************************************************************)
(* Bounds                                                                  *)
(***************************************************************************)
\* longest list of input paths handed to get_sample_names / is_paired
MaxFiles == 3

\* calls of make_temp_dir made by one process
MaxCalls == 2

\* calls of write_configfile in one run
MaxWrites == 1

(***************************************************************************)
(* Python strings                                                          *)
(***************************************************************************)
\* the characters of the modelled file names, in ascending code point order
Alphabet == <<".", "/", "1", "2", "_", "a", "x">>

\* ord(c), up to an order-preserving renumbering
Ord(c) == CHOOSE i \in 1..Len(Alphabet) : Alphabet[i] = c

\* s < t for Python str: lexicographic on code points
RECURSIVE StrLess(_, _)
StrLess(s, t) ==
    IF t = <<>> THEN FALSE
    ELSE IF s = <<>> THEN TRUE
    ELSE IF s[1] = t[1] THEN StrLess(Tail(s), Tail(t))
    ELSE Ord(s[1]) < Ord(t[1])

\* s.startswith(p)
StartsWith(s, p) == Len(p) <= Len(s) /\ SubSeq(s, 1, Len(p)) = p

\* new.join(list(s)) framed by new: what str.replace does for an empty `old`
RECURSIVE Interleave(_, _)
Interleave(s, new) ==
    IF s = <<>> THEN new ELSE new \o <<s[1]>> \o Interleave(Tail(s), new)

\* str.replace(old, new) with count = 1: only the first occurrence
RECURSIVE replaceFirst(_, _, _)
replaceFirst(s, old, new) ==
    IF old = <<>> THEN new \o s
    ELSE IF Len(s) < Len(old) THEN s
    ELSE IF StartsWith(s, old) THEN new \o SubSeq(s, Len(old) + 1, Len(s))
    ELSE <<s[1]>> \o replaceFirst(Tail(s), old, new)

\* str.replace(old, new): every non-overlapping occurrence, scanning left to right
RECURSIVE replace(_, _, _)
replace(s, old, new) ==
    IF old = <<>> THEN Interleave(s, new)
    ELSE IF Len(s) < Len(old) THEN s
    ELSE IF StartsWith(s, old)
         THEN new \o replace(SubSeq(s, Len(old) + 1, Len(s)), old, new)
    ELSE <<s[1]>> \o replace(Tail(s), old, new)

\* os.path.basename (posixpath): what follows the last "/"
RECURSIVE basename(_)
basename(p) ==
    IF \E i \in 1..Len(p) : p[i] = "/"
    THEN basename(SubSeq(p, (CHOOSE i \in 1..Len(p) : p[i] = "/") + 1, Len(p)))
    ELSE p

\* os.path.basename(x).replace(ext, "")
fname(x, e) == replace(basename(x), e, <<>>)

(***************************************************************************)
(* get_sample_names                                                        *)
(***************************************************************************)
\* loop body with the first replace kept when reads[1] is missing
strip_name_partial(x, e, r) ==
    IF Len(r) >= 2 THEN replace(replace(fname(x, e), r[1], <<>>), r[2], <<>>)
    ELSE IF Len(r) = 1 THEN replace(fname(x, e), r[1], <<>>)
    ELSE fname(x, e)

\* loop body: the name appended to s for one path. The right-hand side
\* x.replace(reads[0], "").replace(reads[1], "") is evaluated before x is
\* assigned, so an IndexError (fewer than two suffixes) leaves x as it was.
strip_name(x, e, r) ==
    IF Len(r) >= 2 THEN replace(replace(fname(x, e), r[1], <<>>), r[2], <<>>)
    ELSE fname(x, e)

\* sorted(list(S)) for a set S of strings
RECURSIVE sorted(_)
sorted(S) ==
    IF S = {} THEN <<>>
    ELSE LET m == CHOOSE a \in S : \A b \in S \ {a} : StrLess(a, b)
         IN  <<m>> \o sorted(S \ {m})

\* the list s after the loop
names_list(fs, e, r) == [i \in 1..Len(fs) |-> strip_name(fs[i], e, r)]

\* return s, without set() and sorted()
get_sample_names_raw(fs, e, r) ==
    [status |-> "ok", value |-> names_list(fs, e, r)]

get_sample_names(fs, e, r) ==
    LET s == names_list(fs, e, r)
    IN  [status |-> "ok", value |-> sorted({s[i] : i \in 1..Len(s)})]

(***************************************************************************)
(* is_paired                                                               *)
(***************************************************************************)
\* the prefix lengths n for which name = prefix + r0 or prefix + r1,
\* the prefix having at least `least` characters
PrefixLens(name, r0, r1, least) ==
    {n \in least..Len(name) :
        \/ SubSeq(name, n + 1, Len(name)) = r0
        \/ SubSeq(name, n + 1, Len(name)) = r1}

\* re.match("^(.+)(" + r0 + "|" + r1 + ")$", name) for suffixes without regex
\* metacharacters: the greedy (.+) backtracks from the longest prefix, so
\* group(1) is the longest non-empty prefix that leaves r0 or r1.
re_match(name, r0, r1) ==
    LET L == PrefixLens(name, r0, r1, 1)
    IN  IF L = {} THEN [matched |-> FALSE, bname |-> <<>>]
        ELSE LET n == CHOOSE k \in L : \A j \in L : j <= k
             IN  [matched |-> TRUE, bname |-> SubSeq(name, 1, n)]

\* the dict after the first n paths of the loop
RECURSIVE build_dic(_, _, _, _)
build_dic(fs, e, r, n) ==
    IF n = 0 THEN <<>>
    ELSE LET d == build_dic(fs, e, r, n - 1)
             m == re_match(fname(fs[n], e), r[1], r[2])
         IN  IF ~m.matched THEN d
             ELSE IF m.bname \notin DOMAIN d THEN d @@ (m.bname :> <<fs[n]>>)
             ELSE [d EXCEPT ![m.bname] = Append(@, fs[n])]

\* max([len(x) for x in d.values()])
MaxLen(d) ==
    CHOOSE n \in {Len(d[k]) : k \in DOMAIN d} :
        \A k \in DOMAIN d : Len(d[k]) <= n

\* the final test written >= 2
paired_flag_atleast(d) == DOMAIN d # {} /\ MaxLen(d) >= 2

\* infiles_dic and max([len(x) for x in infiles_dic.values()]) == 2
paired_flag(d) == DOMAIN d # {} /\ MaxLen(d) = 2

\* The outcome of is_paired and the grouping it built. With fewer than two
\* suffixes the pattern's reads[0] / reads[1] raises IndexError in the first
\* iteration; the function has no handler for it. An empty list never
\* enters the loop.
is_paired(fs, e, r) ==
    IF fs # <<>> /\ Len(r) < 2
    THEN [status |-> "IndexError", value |-> FALSE, dic |-> <<>>]
    ELSE LET d == IF fs = <<>> THEN <<>> ELSE build_dic(fs, e, r, Len(fs))
         IN  [status |-> "ok", value |-> paired_flag(d), dic |-> d]

(***************************************************************************)
(* SampleNamer: the inputs and the two calls                               *)
(***************************************************************************)
NoRet == [status |-> "none", value |-> <<>>]

\* the file names the calls are tried on
Paths ==
    { <<"a", "_", "1", ".", "x">>,                      \* a_1.x
      <<"a", "_", "2", ".", "x">>,                      \* a_2.x
      <<"x", "/", "a", "_", "1", ".", "x">>,            \* x/a_1.x
      <<"a", ".", "x">>,                                \* a.x
      <<"_", "1", ".", "x">>,                           \* _1.x
      <<"a", ".", "x", "_", "2", ".", "x">>,            \* a.x_2.x
      <<"a", "_", "1", "2", ".", "x">> }                \* a_12.x

Exts == { <<".", "x">>, <<>> }

ReadsLists ==
    { << <<"_", "1">>, <<"_", "2">> >>,                 \* ("_1", "_2")
      << <<"2">>, <<"1", "2">> >>,                      \* ("2", "12")
      << <<"_", "2">> >>,                               \* one suffix
      << >> }                                           \* no suffix

RECURSIVE ListsUpTo(_, _)
ListsUpTo(S, n) ==
    IF n = 0 THEN { <<>> }
    ELSE LET shorter == ListsUpTo(S, n - 1)
         IN  shorter \cup {Append(l, x) : l \in {k \in shorter : Len(k) = n - 1}, x \in S}

InitSample ==
    /\ op = "none"
    /\ infiles \in ListsUpTo(Paths, MaxFiles)
    /\ ext \in Exts
    /\ reads \in ReadsLists
    /\ ret = NoRet
    /\ infiles_dic = <<>>
    /\ ConfigOff /\ OrganismOff /\ TempOff

GetSampleNames ==
    /\ op = "none"
    /\ op' = "get_sample_names"
    /\ ret' = get_sample_names(infiles, ext, reads)
    /\ UNCHANGED <<infiles, ext, reads, infiles_dic, cvars, ovars, tvars>>

IsPaired ==
    /\ op = "none"
    /\ op' = "is_paired"
    /\ LET r == is_paired(infiles, ext, reads)
       IN  /\ ret' = [status |-> r.status, value |-> r.value]
           /\ infiles_dic' = r.dic
    /\ UNCHANGED <<infiles, ext, reads, cvars, ovars, tvars>>

NextSample == GetSampleNames \/ IsPaired

SpecSample == InitSample /\ [][NextSample]_vars

(***************************************************************************)
(* config_diff                                                             *)
(***************************************************************************)
\* the loop with a second pass that also reports the keys only dict2 has
config_diff_symmetric(d1, d2) ==
    [k \in {k \in DOMAIN d1 \cup DOMAIN d2 :
                k \notin DOMAIN d1 \/ k \notin DOMAIN d2 \/ d1[k] # d2[k]}
        |-> IF k \in DOMAIN d1 THEN d1[k] ELSE d2[k]]

\* the loop `for k in dict1` over the keys not yet visited, diff so far in acc
RECURSIVE diff_loop(_, _, _, _)
diff_loop(d1, d2, todo, acc) ==
    IF todo = {} THEN acc
    ELSE LET k == CHOOSE x \in todo : TRUE
         IN  diff_loop(d1, d2, todo \ {k},
                       IF k \in DOMAIN d2
                       THEN IF d1[k] # d2[k] THEN acc @@ (k :> d1[k]) ELSE acc
                       ELSE acc @@ (k :> d1[k]))

config_diff(d1, d2) == diff_loop(d1, d2, DOMAIN d1, <<>>)

\* configuration keys and values the call is tried on
Keys == {"genome", "outdir", "ext"}
Vals == {"a", "b"}

\* the mappings over those keys
Dicts == UNION {[D -> Vals] : D \in SUBSET Keys}

InitConfig ==
    /\ cpc = "none"
    /\ dict1 \in Dicts
    /\ dict2 \in Dicts
    /\ diff = <<>>
    /\ SampleOff /\ OrganismOff /\ TempOff

ConfigDiff ==
    /\ cpc = "none"
    /\ cpc' = "config_diff"
    /\ diff' = config_diff(dict1, dict2)
    /\ UNCHANGED <<dict1, dict2, svars, ovars, tvars>>

NextConfig == ConfigDiff

SpecConfig == InitConfig /\ [][NextConfig]_vars

(***************************************************************************)
(* Files: load_configfile, write_configfile, load_organism_data,           *)
(* load_paths, cleanLogs                                                   *)
(***************************************************************************)
\* posixpath.join(a, b): an absolute b discards a
join2(a, b) ==
    IF b # <<>> /\ b[1] = "/" THEN b
    ELSE IF a = <<>> \/ a[Len(a)] = "/" THEN a \o b
    ELSE a \o <<"/">> \o b

\* os.path.join(maindir, "shared", "organisms", genome + ".yaml")
OrganismFile(g, m) ==
    join2(join2(join2(m, <<"s", "h", "a", "r", "e", "d">>), <<"o", "r", "g", "a", "n", "i", "s", "m", "s">>), g \o <<".", "y", "a", "m", "l">>)

\* os.path.join(maindir, "shared", "tools")
ToolsDir(m) == join2(join2(m, <<"s", "h", "a", "r", "e", "d">>), <<"t", "o", "o", "l", "s">>)

\* os.path.isfile(p)
isfile(fs, p) == p \in DOMAIN fs

\* os.path.dirname (posixpath): what precedes the last "/", "/" for a file in the root
dirname(p) ==
    IF \E i \in 1..Len(p) : p[i] = "/"
    THEN LET i == CHOOSE k \in 1..Len(p) : p[k] = "/" /\ \A j \in k + 1..Len(p) : p[j] # "/"
         IN  IF i = 1 THEN <<"/">> ELSE SubSeq(p, 1, i - 1)
    ELSE <<>>

\* the components of a path, split at "/"
RECURSIVE Split(_)
Split(p) ==
    IF \E i \in 1..Len(p) : p[i] = "/"
    THEN LET i == CHOOSE k \in 1..Len(p) : p[k] = "/" /\ \A j \in 1..k - 1 : p[j] # "/"
         IN  <<SubSeq(p, 1, i - 1)>> \o Split(SubSeq(p, i + 1, Len(p)))
    ELSE <<p>>

\* a path component the glob pattern "*" matches: not empty, not hidden
Star(c) == c # <<>> /\ c[1] # "."

\* p is among glob(d/cluster_logs/*)
InClusterLogs(p, d) ==
    LET c == Split(p) n == Len(Split(d))
    IN  /\ Len(c) = n + 2
        /\ SubSeq(c, 1, n) = Split(d)
        /\ c[n + 1] = <<"c", "l", "u", "s", "t", "e", "r", "_", "l", "o", "g", "s">>
        /\ Star(c[n + 2])

\* p is among glob(d/*/logs/*)
InRuleLogs(p, d) ==
    LET c == Split(p) n == Len(Split(d))
    IN  /\ Len(c) = n + 3
        /\ SubSeq(c, 1, n) = Split(d)
        /\ Star(c[n + 1])
        /\ c[n + 2] = <<"l", "o", "g", "s">>
        /\ Star(c[n + 3])

\* yaml.load(f) at line 47: PyYAML 6 and later take no default Loader and
\* raise TypeError; earlier releases parse the document
yaml_load(fs, p, dflt) ==
    IF dflt THEN [status |-> "ok", doc |-> fs[p].doc]
    ELSE [status |-> "TypeError", doc |-> <<>>]

\* sanity_dict_clean: the mapping without the keys maindir and workflow
sanity_dict_clean(d) == [k \in DOMAIN d \ {"maindir", "workflow"} |-> d[k]]

\* load_configfile(configfile, verbose, info): the mapping returned and the
\* banner printed (the key: value lines under it are left out). open() of a
\* missing file raises FileNotFoundError.
load_configfile(fs, dflt, cf, verbose, info) ==
    IF ~isfile(fs, cf)
    THEN [status |-> "FileNotFoundError", opened |-> <<>>, config |-> <<>>, printed |-> <<>>]
    ELSE LET y == yaml_load(fs, cf, dflt)
         IN  IF y.status # "ok"
             THEN [status |-> y.status, opened |-> <<cf>>, config |-> <<>>, printed |-> <<>>]
             ELSE [status  |-> "returned",
                   opened  |-> <<cf>>,
                   config  |-> sanity_dict_clean(y.doc),
                   printed |-> IF verbose THEN <<[info |-> info, configfile |-> cf]>>
                               ELSE <<>>]

\* what load_organism_data makes of the outcome of its load_configfile call
Loaded(c) ==
    [status |-> c.status, opened |-> c.opened, organism |-> c.config,
     printed |-> c.printed, msg |-> <<>>]

load_organism_data(fs, dflt, g, m, v) ==
    IF isfile(fs, OrganismFile(g, m))
    THEN Loaded(load_configfile(fs, dflt, OrganismFile(g, m), v, "Genome"))
    ELSE IF isfile(fs, g) THEN Loaded(load_configfile(fs, dflt, g, v, "Genome (user)"))
    ELSE [status |-> "exited", opened |-> <<>>, organism |-> <<>>, printed |-> <<>>,
          msg |-> <<"ERROR: Genome configuration file NOT found for: ", g>>]

\* load_paths(pathfile, maindir, verbose): load_configfile(pathfile, False),
\* then paths["workflow_tools"] is set and the paths banner printed
load_paths(fs, dflt, pf, m, v) ==
    LET c == load_configfile(fs, dflt, pf, FALSE, "Config")
    IN  IF c.status # "returned" THEN c
        ELSE [status  |-> "returned",
              opened  |-> c.opened,
              config  |-> [k \in DOMAIN c.config \cup {"workflow_tools"} |->
                              IF k = "workflow_tools" THEN ToolsDir(m) ELSE c.config[k]],
              printed |-> IF v THEN <<[info |-> "paths", configfile |-> <<>>]>> ELSE <<>>]

\* the files after write_configfile(cf, config): yaml.dump writes a
\* non-empty document that loads back as config
write_configfile(fs, cf, config) ==
    [p \in DOMAIN fs \cup {cf} |-> IF p = cf THEN [size |-> 1, doc |-> config] ELSE fs[p]]

\* the files after cleanLogs(d): the zero-length files among the two globs
\* are removed
cleanLogs(fs, d) ==
    [p \in {x \in DOMAIN fs : ~((InClusterLogs(x, d) \/ InRuleLogs(x, d)) /\ fs[x].size = 0)}
        |-> fs[p]]

\* genome arguments: an organism name, a relative path, an absolute path
Genomes == { <<"m", "m">>, <<"u">>, <<"/", "u">> }

Maindirs == { <<"/", "s">>, <<"w">> }

\* the configuration files the calls are tried on
ConfigPaths == Genomes \cup {OrganismFile(g, m) : g \in Genomes, m \in Maindirs}

\* the organism directories, which may or may not exist
OrganismDirs == {dirname(OrganismFile(<<"m", "m">>, m)) : m \in Maindirs}

\* the mappings write_configfile is handed
Configs == { [genome_index |-> <<"z", "z">>, maindir |-> <<"x">>],
             [genome_index |-> <<"y">>, workflow |-> <<"x">>] }

\* log files: in cluster_logs, in a rule's logs directory, hidden, elsewhere
LogPaths == { <<"o", "/", "c", "l", "u", "s", "t", "e", "r", "_", "l", "o", "g", "s", "/", "l">>, <<"o", "/", "r", "/", "l", "o", "g", "s", "/", "l">>, <<"o", "/", "c", "l", "u", "s", "t", "e", "r", "_", "l", "o", "g", "s", "/", ".", "h">>, <<"o", "/", "r", "/", "l">> }

\* the directory arguments of cleanLogs
LogRoots == { <<"o">>, <<"o", "/", "r">> }

\* open(p, "w") finds the directory of p
DirExists(ds, p) == dirname(p) \in {<<>>, <<"/">>} \cup ds

\* the log files that glob finds, each of which may be empty
MatchedLogs == {p \in LogPaths : \E d \in LogRoots : InClusterLogs(p, d) \/ InRuleLogs(p, d)}

\* the pathfile / configfile arguments
PathFiles == Genomes

\* a run starts with the log files, the matched ones empty or not and the
\* others empty, with or without the organism directories, and with no
\* configuration file
InitOrganism ==
    /\ ofn = "none"
    /\ opc = "none"
    /\ genome = <<>>
    /\ maindir = <<>>
    /\ overbose = FALSE
    /\ configfile = <<>>
    /\ \E Z \in SUBSET MatchedLogs :
           files = [p \in LogPaths |-> [size |-> IF p \in Z THEN 1 ELSE 0, doc |-> <<>>]]
    /\ odirs \in {{}, OrganismDirs}
    /\ yaml_default_loader \in BOOLEAN
    /\ opened = <<>>
    /\ organism = <<>>
    /\ ostdout = <<>>
    /\ exit_msg = <<>>
    /\ nwrites = 0
    /\ SampleOff /\ ConfigOff /\ TempOff

LoadOrganismData ==
    \E g \in Genomes, m \in Maindirs, v \in BOOLEAN :
        LET r == load_organism_data(files, yaml_default_loader, g, m, v)
        IN  /\ ofn' = "load_organism_data"
            /\ genome' = g /\ maindir' = m /\ overbose' = v /\ configfile' = <<>>
            /\ opc' = r.status
            /\ opened' = r.opened
            /\ organism' = r.organism
            /\ ostdout' = r.printed
            /\ exit_msg' = r.msg
            /\ UNCHANGED <<files, odirs, yaml_default_loader, nwrites, svars, cvars, tvars>>

LoadConfigfile ==
    \E cf \in PathFiles, v \in BOOLEAN :
        LET r == load_configfile(files, yaml_default_loader, cf, v, "Config")
        IN  /\ ofn' = "load_configfile"
            /\ genome' = <<>> /\ maindir' = <<>> /\ overbose' = v /\ configfile' = cf
            /\ opc' = r.status
            /\ opened' = r.opened
            /\ organism' = r.config
            /\ ostdout' = r.printed
            /\ exit_msg' = <<>>
            /\ UNCHANGED <<files, odirs, yaml_default_loader, nwrites, svars, cvars, tvars>>

LoadPaths ==
    \E pf \in PathFiles, m \in Maindirs, v \in BOOLEAN :
        LET r == load_paths(files, yaml_default_loader, pf, m, v)
        IN  /\ ofn' = "load_paths"
            /\ genome' = <<>> /\ maindir' = m /\ overbose' = v /\ configfile' = pf
            /\ opc' = r.status
            /\ opened' = r.opened
            /\ organism' = r.config
            /\ ostdout' = r.printed
            /\ exit_msg' = <<>>
            /\ UNCHANGED <<files, odirs, yaml_default_loader, nwrites, svars, cvars, tvars>>

WriteConfigfile ==
    /\ nwrites < MaxWrites
    /\ \E cf \in ConfigPaths, c \in Configs :
        /\ ofn' = "write_configfile"
        /\ genome' = <<>> /\ maindir' = <<>> /\ overbose' = FALSE /\ configfile' = cf
        /\ opc' = IF DirExists(odirs, cf) THEN "returned" ELSE "FileNotFoundError"
        /\ files' = IF DirExists(odirs, cf) THEN write_configfile(files, cf, c) ELSE files
        /\ opened' = IF DirExists(odirs, cf) THEN <<cf>> ELSE <<>>
        /\ organism' = <<>>
        /\ ostdout' = <<>>
        /\ exit_msg' = <<>>
        /\ nwrites' = nwrites + 1
        /\ UNCHANGED <<odirs, yaml_default_loader, svars, cvars, tvars>>

CleanLogs ==
    \E d \in LogRoots :
        /\ ofn' = "cleanLogs"
        /\ genome' = <<>> /\ maindir' = <<>> /\ overbose' = FALSE /\ configfile' = d
        /\ opc' = "returned"
        /\ files' = cleanLogs(files, d)
        /\ opened' = <<>>
        /\ organism' = <<>>
        /\ ostdout' = <<>>
        /\ exit_msg' = <<>>
        /\ UNCHANGED <<odirs, yaml_default_loader, nwrites, svars, cvars, tvars>>

NextOrganism ==
    \/ LoadOrganismData
    \/ LoadConfigfile
    \/ LoadPaths
    \/ WriteConfigfile
    \/ CleanLogs

SpecOrganism == InitOrganism /\ [][NextOrganism]_vars

(***************************************************************************)
(* make_temp_dir                                                           *)
(***************************************************************************)
\* the template "tmp.snakemake." of the mktemp command
Template == <<"t", "m", "p", ".", "s", "n", "a", "k", "e", "m", "a", "k", "e", ".">>

\* what mktemp may put in place of XXXXXXXX
RandomSuffixes == { <<"A", "A", "A", "A", "A", "A", "A", "A">>,
                    <<"B", "B", "B", "B", "B", "B", "B", "B">> }

\* the directory "mktemp -d -p <root>/ tmp.snakemake.XXXXXXXX" prints
MktempDir(root, x) == root \o <<"/">> \o Template \o x

TempRoots == { <<"/", "t">>, <<"/", "f">> }

\* a call starts: the process is running and has made fewer than MaxCalls calls
Call ==
    /\ tpc \in {"idle", "returned"}
    /\ ncalls < MaxCalls
    /\ tempdir' \in TempRoots
    /\ fallback_dir' \in TempRoots
    /\ tverbose' \in BOOLEAN
    /\ tpc' = "preferred"
    /\ attempts' = <<>>
    /\ temp_path' = <<>>
    /\ tstdout' = <<>>
    /\ ncalls' = ncalls + 1
    /\ UNCHANGED <<dirs, exit_code, svars, cvars, ovars>>

\* mktemp under root succeeds: a directory that did not exist is created, its
\* path with "/" appended becomes temp_path, and the function returns
Created(root) ==
    \E x \in RandomSuffixes :
        /\ MktempDir(root, x) \notin dirs
        /\ dirs' = dirs \cup {MktempDir(root, x)}
        /\ temp_path' = MktempDir(root, x) \o <<"/">>
        /\ attempts' = Append(attempts, [root |-> root, ok |-> TRUE])
        /\ tstdout' = IF tverbose THEN Append(tstdout, "temp dir created") ELSE tstdout
        /\ tpc' = "returned"
        /\ UNCHANGED <<tempdir, fallback_dir, tverbose, exit_code, ncalls, svars, cvars, ovars>>

\* first try block: mktemp under tempdir succeeds
PreferredCreated == tpc = "preferred" /\ Created(tempdir)

\* first try block: mktemp exits non-zero (CalledProcessError); the handler
\* announces the fallback
PreferredFailed ==
    /\ tpc = "preferred"
    /\ attempts' = Append(attempts, [root |-> tempdir, ok |-> FALSE])
    /\ tstdout' = Append(tstdout, "Failed to create temp dir under temp path prefix")
    /\ tpc' = "fallback"
    /\ UNCHANGED <<tempdir, fallback_dir, tverbose, temp_path, dirs, exit_code, ncalls,
                   svars, cvars, ovars>>

\* inner try block: mktemp under fallback_dir succeeds
FallbackCreated == tpc = "fallback" /\ Created(fallback_dir)

\* the inner handler trying the fallback root again instead of giving up
FallbackFailedRetry ==
    /\ tpc = "fallback"
    /\ attempts' = Append(attempts, [root |-> fallback_dir, ok |-> FALSE])
    /\ tstdout' = Append(tstdout, "Also failed to create temp dir under fallback prefix")
    /\ tpc' = IF Len(attempts) < 3 THEN "fallback" ELSE "exited"
    /\ exit_code' = IF Len(attempts) < 3 THEN exit_code ELSE 1
    /\ UNCHANGED <<tempdir, fallback_dir, tverbose, temp_path, dirs, ncalls,
                   svars, cvars, ovars>>

\* inner try block: mktemp fails again; the handler prints and calls exit(1)
FallbackFailed ==
    /\ tpc = "fallback"
    /\ attempts' = Append(attempts, [root |-> fallback_dir, ok |-> FALSE])
    /\ tstdout' = Append(tstdout, "Also failed to create temp dir under fallback prefix")
    /\ tpc' = "exited"
    /\ exit_code' = 1
    /\ UNCHANGED <<tempdir, fallback_dir, tverbose, temp_path, dirs, ncalls,
                   svars, cvars, ovars>>

InitTemp ==
    /\ tpc = "idle"
    /\ tempdir = <<>>
    /\ fallback_dir = <<>>
    /\ tverbose = FALSE
    /\ attempts = <<>>
    /\ temp_path = <<>>
    /\ dirs = {}
    /\ tstdout = <<>>
    /\ exit_code = 0
    /\ ncalls = 0
    /\ SampleOff /\ ConfigOff /\ OrganismOff

NextTemp ==
    \/ Call
    \/ PreferredCreated
    \/ PreferredFailed
    \/ FallbackCreated
    \/ FallbackFailed

SpecTemp == InitTemp /\ [][NextTemp]_vars

(***************************************************************************)
(* The module as a whole: any one of the components                        *)
(***************************************************************************)
Init == InitSample \/ InitConfig \/ InitOrganism \/ InitTemp

Next == NextSample \/ NextConfig \/ NextOrganism \/ NextTemp

Spec == Init /\ [][Next]_vars

(***************************************************************************)
(* Properties of the SampleNamer calls                                     *)
(***************************************************************************)
Idx == 1..Len(infiles)

\* the extension-stripped file name of the i-th input path
Stripped(i) == fname(infiles[i], ext)

\* s ends with suffix r
EndsWith(s, r) == Len(r) <= Len(s) /\ SubSeq(s, Len(s) - Len(r) + 1, Len(s)) = r

\* the base names b, b non-empty, with s = b + reads[0] or s = b + reads[1]
BaseNames(s) ==
    {b \in {SubSeq(s, 1, n) : n \in 1..Len(s)} : s = b \o reads[1] \/ s = b \o reads[2]}

\* the i-th path matches the pairing pattern
Suffixed(i) == BaseNames(Stripped(i)) # {}

\* the base name the i-th path is grouped under: the longest one
BaseOf(i) ==
    CHOOSE b \in BaseNames(Stripped(i)) : \A c \in BaseNames(Stripped(i)) : Len(c) <= Len(b)

\* how many input paths share the base name of the i-th path
GroupSize(i) == Cardinality({j \in Idx : Suffixed(j) /\ BaseOf(j) = BaseOf(i)})

\* the keys of the grouping under which path p is listed
KeysOf(p) ==
    {k \in DOMAIN infiles_dic : \E n \in 1..Len(infiles_dic[k]) : infiles_dic[k][n] = p}

\* C1: with a read-suffix pair, is_paired returns true iff some input path
\* matches a read suffix and the largest number of paths sharing one base name
\* is exactly 2; hence false for the empty list, false when no stripped name
\* ends with a read suffix, and false when three or more paths share a base name.
C1_PairedIffLargestGroupIsTwo ==
    (op = "is_paired" /\ Len(reads) >= 2) =>
        /\ ret.status = "ok"
        /\ ret.value = (/\ \E i \in Idx : Suffixed(i) /\ GroupSize(i) = 2
                        /\ \A i \in Idx : Suffixed(i) => GroupSize(i) <= 2)
        /\ infiles = <<>> => ret.value = FALSE
        /\ (\A i \in Idx : ~EndsWith(Stripped(i), reads[1]) /\ ~EndsWith(Stripped(i), reads[2]))
               => ret.value = FALSE
        /\ (\E i \in Idx : Suffixed(i) /\ GroupSize(i) >= 3) => ret.value = FALSE

\* an unsuffixed single-end file mixed with one complete pair is reported paired
C1_Witness ==
    /\ op = "is_paired"
    /\ Len(reads) >= 2
    /\ Len(infiles) = 3
    /\ \E i \in Idx : ~Suffixed(i)
    /\ \E i, j \in Idx : i # j /\ Suffixed(i) /\ Suffixed(j)
                         /\ infiles[i] # infiles[j] /\ BaseOf(i) = BaseOf(j)
    /\ ret.value = TRUE

\* C2: the two mate files p+r0+ext and p+r1+ext of one sample, in any
\* directories, are given one and the same sample name by get_sample_names.
C2_MatesShareOneName ==
    (/\ op = "get_sample_names"
     /\ Len(reads) >= 2
     /\ Len(infiles) = 2
     /\ \E p \in {SubSeq(basename(infiles[1]), 1, n) : n \in 1..Len(basename(infiles[1]))} :
            /\ basename(infiles[1]) = p \o reads[1] \o ext
            /\ basename(infiles[2]) = p \o reads[2] \o ext)
    => Len(ret.value) = 1

\* C3: the list returned by get_sample_names has no duplicates, ascends
\* strictly in lexicographic order and holds exactly the stripped names of
\* the input paths; the empty list gives the empty list.
C3_NamesSortedUniqueExact ==
    op = "get_sample_names" =>
        /\ ret.status = "ok"
        /\ \A i, j \in 1..Len(ret.value) : i < j => StrLess(ret.value[i], ret.value[j])
        /\ \A i, j \in 1..Len(ret.value) : i # j => ret.value[i] # ret.value[j]
        /\ {ret.value[i] : i \in 1..Len(ret.value)}
               = {strip_name(infiles[i], ext, reads) : i \in Idx}
        /\ infiles = <<>> => ret.value = <<>>

\* a repeated path and a list whose names arrive out of order
C3_Witness ==
    /\ op = "get_sample_names"
    /\ Len(infiles) = 3
    /\ infiles[1] = infiles[3]
    /\ Len(ret.value) = 2
    /\ StrLess(strip_name(infiles[2], ext, reads), strip_name(infiles[1], ext, reads))

\* C4: is_paired never raises; with fewer than two read suffixes it
\* returns false.
C4_IsPairedNeverRaises ==
    op = "is_paired" =>
        /\ ret.status = "ok"
        /\ Len(reads) < 2 => ret.value = FALSE

\* C5: with fewer than two read suffixes get_sample_names raises nothing and
\* removes no suffix: the names are the file names without the extension, a
\* single suffix reads[0] staying in place.
C5_ShortReadsSkipSuffixRemoval ==
    (op = "get_sample_names" /\ Len(reads) < 2) =>
        /\ ret.status = "ok"
        /\ {ret.value[i] : i \in 1..Len(ret.value)} = {Stripped(i) : i \in Idx}

\* one suffix is given, a file name carries it, and the name returned keeps it
C5_Witness ==
    /\ op = "get_sample_names"
    /\ Len(reads) = 1
    /\ Len(infiles) = 1
    /\ EndsWith(Stripped(1), reads[1])
    /\ ret.value = <<Stripped(1)>>

\* the start positions of the occurrences of old in s, leftmost first and
\* not overlapping, from position `from` on
RECURSIVE OccStarts(_, _, _)
OccStarts(s, old, from) ==
    IF old = <<>> \/ from + Len(old) - 1 > Len(s) THEN {}
    ELSE IF SubSeq(s, from, from + Len(old) - 1) = old
         THEN {from} \cup OccStarts(s, old, from + Len(old))
    ELSE OccStarts(s, old, from + 1)

\* s with the characters of all those occurrences left out
WithoutOcc(s, old) ==
    LET st   == OccStarts(s, old, 1)
        kept == SelectSeq([i \in 1..Len(s) |-> i],
                          LAMBDA i : \A j \in st : i < j \/ i >= j + Len(old))
    IN  [n \in 1..Len(kept) |-> s[kept[n]]]

\* C9 as stated: only the first occurrence of the extension is removed from
\* the file name, later occurrences remain in the stripped name.
C9_OnlyFirstOccurrenceRemoved ==
    (op = "get_sample_names" /\ Len(reads) < 2 /\ Len(infiles) = 1) =>
        ret.value = <<replaceFirst(basename(infiles[1]), ext, <<>>)>>

\* C9 amended: every non-overlapping occurrence of the extension, scanning
\* left to right, is removed from the final path component, in
\* get_sample_names and in the names is_paired groups by.
C9_EveryOccurrenceRemoved ==
    /\ (op = "get_sample_names" /\ Len(reads) < 2) =>
           {ret.value[i] : i \in 1..Len(ret.value)}
               = {WithoutOcc(basename(infiles[i]), ext) : i \in Idx}
    /\ (op = "is_paired" /\ ret.status = "ok") =>
           \A i \in Idx : \A k \in KeysOf(infiles[i]) :
               \/ k \o reads[1] = WithoutOcc(basename(infiles[i]), ext)
               \/ k \o reads[2] = WithoutOcc(basename(infiles[i]), ext)

\* a file name holding the extension twice has been stripped of both
C9_Witness ==
    /\ op = "get_sample_names"
    /\ Len(reads) < 2
    /\ Len(infiles) = 1
    /\ Cardinality(OccStarts(basename(infiles[1]), ext, 1)) = 2
    /\ Len(ret.value[1]) = Len(basename(infiles[1])) - 2 * Len(ext)

\* C10: a path is in the grouping iff its stripped name ends with reads[0]
\* or reads[1], a name that is a suffix alone included.
C10_GroupedIffEndsWithSuffix ==
    (op = "is_paired" /\ Len(reads) >= 2) =>
        \A i \in Idx :
            KeysOf(infiles[i]) # {}
                <=> (EndsWith(Stripped(i), reads[1]) \/ EndsWith(Stripped(i), reads[2]))

(***************************************************************************)
(* Properties of make_temp_dir, load_organism_data and config_diff         *)
(***************************************************************************)
\* C6: make_temp_dir runs mktemp under the preferred root first, under the
\* fallback root only after that failed and only once, so at most twice in
\* a call; the process exits iff both failed; otherwise the path returned
\* lies under the root whose mktemp succeeded.
C6_PreferredThenFallbackOnce ==
    tpc \notin {"off", "idle"} =>
        LET n == Len(attempts) IN
        /\ n <= 2
        /\ n >= 1 => attempts[1].root = tempdir
        /\ n = 2 => ~attempts[1].ok /\ attempts[2].root = fallback_dir
        /\ tpc = "preferred" <=> n = 0
        /\ tpc = "fallback" <=> (n = 1 /\ ~attempts[1].ok)
        /\ tpc = "exited" <=> (n = 2 /\ ~attempts[1].ok /\ ~attempts[2].ok)
        /\ tpc = "returned" <=> (n >= 1 /\ attempts[n].ok)
        /\ tpc = "exited" <=> exit_code = 1
        /\ tpc = "returned" =>
               /\ StartsWith(temp_path, attempts[n].root \o <<"/">>)
               /\ SubSeq(temp_path, 1, Len(temp_path) - 1) \in dirs
               /\ attempts[n].root = IF n = 1 THEN tempdir ELSE fallback_dir

\* the preferred root failed and the call returned a path under the fallback
C6_Witness ==
    /\ tpc = "returned"
    /\ tempdir # fallback_dir
    /\ attempts = <<[root |-> tempdir, ok |-> FALSE], [root |-> fallback_dir, ok |-> TRUE]>>
    /\ StartsWith(temp_path, fallback_dir \o <<"/">>)

\* "/shared/organisms/"
SharedOrganisms ==
    <<"/", "s", "h", "a", "r", "e", "d", "/", "o", "r", "g", "a", "n", "i", "s", "m", "s", "/">>

\* C7: load_organism_data loads maindir/shared/organisms/<genome>.yaml when
\* that file exists, also when genome itself is an existing file; only
\* when it is absent is genome loaded as a path; when neither exists the
\* process exits with a message and nothing is opened or returned. (For an
\* absolute genome the path os.path.join builds is <genome>.yaml.)
C7_OrganismFileBeforeUserFile ==
    ofn = "load_organism_data" =>
        LET F == IF genome[1] = "/"
                 THEN genome \o <<".", "y", "a", "m", "l">>
                 ELSE maindir \o SharedOrganisms \o genome \o <<".", "y", "a", "m", "l">>
        IN  /\ isfile(files, F) =>
                /\ opc = "returned"
                /\ opened = <<F>>
                /\ organism = sanity_dict_clean(files[F].doc)
            /\ (~isfile(files, F) /\ isfile(files, genome)) =>
                /\ opc = "returned"
                /\ opened = <<genome>>
                /\ organism = sanity_dict_clean(files[genome].doc)
            /\ (~isfile(files, F) /\ ~isfile(files, genome)) =>
                /\ opc = "exited"
                /\ opened = <<>>
                /\ organism = <<>>
                /\ exit_msg # <<>>

\* what C8 says of the mapping returned
C8_DiffShape ==
    cpc = "config_diff" =>
        /\ DOMAIN diff = {k \in DOMAIN dict1 : k \notin DOMAIN dict2 \/ dict1[k] # dict2[k]}
        /\ \A k \in DOMAIN diff : diff[k] = dict1[k]
        /\ \A k \in DOMAIN dict2 \ DOMAIN dict1 : k \notin DOMAIN diff
        /\ dict1 = dict2 => DOMAIN diff = {}

\* C8: config_diff(a, b) maps exactly the keys of a that b lacks or maps to
\* another value, each to a's value; keys only b has never appear,
\* config_diff(a, a) is empty, and the call changes neither a nor b.
C8_DiffOfFirstAgainstSecond ==
    /\ []C8_DiffShape
    /\ [][dict1' = dict1 /\ dict2' = dict2]_vars

\* one key b lacks, one key with another value, one equal key left out and
\* one key only b has
C8_Witness ==
    /\ cpc = "config_diff"
    /\ \E k \in DOMAIN diff : k \notin DOMAIN dict2
    /\ \E k \in DOMAIN diff : k \in DOMAIN dict2 /\ dict1[k] # dict2[k]
    /\ DOMAIN dict2 \ DOMAIN dict1 # {}

====
